---- MODULE Spec2Model ----
(***************************************************************************)
(* CodeGenesis: the generation pipeline (services/ai_generator.py) and the *)
(* project store (services/project_service.py over models/database.py).    *)
(*                                                                         *)
(* Texts (markdown bodies, titles) are sequences of tokens; a token is a   *)
(* string: one character of Alphabet, or a literal chunk of the source     *)
(* that the model never looks inside.  A Python call is modelled by a      *)
(* record [ret, exc, ...]: exc = "" when the call returned, otherwise the  *)
(* name of the exception that left it.                                     *)
(***************************************************************************)
EXTENDS Integers, Sequences, FiniteSets, TLC

VARIABLES GROQ_API_KEY, db, seq, last, groq, conn

vars == <<GROQ_API_KEY, db, seq, last, groq, conn>>

\* Python values that are not dicts or texts carry their type, so that None,
\* False and 1 are distinct and comparable
None == [none |-> TRUE]
PyBool(b) == [bool |-> b]
PyInt(n) == [int |-> n]
PyStr(s) == [str |-> s]
PyList(l) == [list |-> l]
NoExc == ""

(***************************************************************************)
(* Input domains.                                                          *)
(***************************************************************************)
Skills == {"beginner", "intermediate", "advanced"}
TechStacks == {"HTML, CSS", "Python"}
ProjectTypes == {"web", "tool"}
Owners == {"u1", "u2"}

\* str.capitalize() on the project types of the model
Capitalize(s) ==
    CASE s = "web" -> "Web"
      [] s = "tool" -> "Tool"
      [] OTHER -> s

\* a text is non-empty when some token of it holds a character
NonEmpty(text) == \E i \in 1..Len(text) : text[i] # ""

(***************************************************************************)
(* The rendering collaborator markdown.markdown(text, extensions): a pure  *)
(* function of its two arguments, which fails to load an extension it does *)
(* not know.                                                               *)
(***************************************************************************)
KnownExtensions == {"fenced_code", "tables", "codehilite"}

render(text, extensions) ==
    IF extensions \subseteq KnownExtensions
    THEN [ret |-> [md |-> text, ext |-> extensions], exc |-> NoExc]
    ELSE [ret |-> None, exc |-> "ImportError"]

(***************************************************************************)
(* Python str methods on token sequences.                                  *)
(***************************************************************************)
Alphabet == {"#", " ", "\n", "a"}

IsSpace(c) == c \in {" ", "\n"}

RECURSIVE LStrip(_)
LStrip(s) == IF s # <<>> /\ IsSpace(Head(s)) THEN LStrip(Tail(s)) ELSE s

RECURSIVE RStrip(_)
RStrip(s) ==
    IF s # <<>> /\ IsSpace(s[Len(s)]) THEN RStrip(SubSeq(s, 1, Len(s) - 1)) ELSE s

\* str.strip()
Strip(s) == RStrip(LStrip(s))

\* str.split('\n'): always at least one (possibly empty) line
RECURSIVE SplitLines(_)
SplitLines(s) ==
    IF \E i \in 1..Len(s) : s[i] = "\n"
    THEN LET i == CHOOSE k \in 1..Len(s) :
                      s[k] = "\n" /\ \A j \in 1..(k - 1) : s[j] # "\n"
         IN <<SubSeq(s, 1, i - 1)>> \o SplitLines(SubSeq(s, i + 1, Len(s)))
    ELSE <<s>>

\* str.startswith(prefix)
StartsWith(s, prefix) ==
    Len(s) >= Len(prefix) /\ SubSeq(s, 1, Len(prefix)) = prefix

\* str.replace('# ', ''): every occurrence, left to right, without overlap
RECURSIVE RemoveHashSpace(_)
RemoveHashSpace(s) ==
    IF s = <<>> THEN <<>>
    ELSE IF StartsWith(s, <<"#", " ">>) THEN RemoveHashSpace(SubSeq(s, 3, Len(s)))
    ELSE <<Head(s)>> \o RemoveHashSpace(Tail(s))

\* str.lstrip('#')
RECURSIVE LStripHash(_)
LStripHash(s) == IF s # <<>> /\ Head(s) = "#" THEN LStripHash(Tail(s)) ELSE s

\* s[:n]
Take(s, n) == SubSeq(s, 1, IF Len(s) < n THEN Len(s) ELSE n)

(***************************************************************************)
(* services/ai_generator.py                                                *)
(***************************************************************************)
\* the names bound in the module's namespace once it is imported: the def of
\* line 50 and the def of line 180 bind the same name, get_fallback_template
ModuleNames ==
    {"os", "json", "markdown", "requests", "load_dotenv", "current_app",
     "GROQ_API_KEY", "GROQ_API_URL", "DEFAULT_MODEL", "GroqAPIError",
     "generate_project", "get_fallback_template", "call_groq_api",
     "process_api_response"}

\* os.environ.get("GROQ_API_KEY") at import: unset, set to nothing, or a key
ApiKeys == {None, PyStr(""), PyStr("gsk_key")}

\* what requests.post and the endpoint can do to one request
Responses ==
    {[kind |-> "transport", code |-> 0, text |-> <<>>],
     [kind |-> "status", code |-> 500, text |-> <<"a">>],
     [kind |-> "badshape", code |-> 200, text |-> <<>>],
     [kind |-> "ok", code |-> 200, text |-> <<"#", " ", "a">>],
     [kind |-> "ok", code |-> 200, text |-> <<"a", "\n", "#", " ", "a">>],
     [kind |-> "ok", code |-> 200, text |-> <<"a">>]}

\* the prompt builder (the body under the def of line 50)
create_project_prompt(skill_level, tech_stack, project_type) ==
    LET guidance == IF skill_level = "beginner" THEN "1-2 days"
                    ELSE IF skill_level = "intermediate" THEN "3-7 days"
                    ELSE "1-3 weeks"
    IN [ret |-> [system |-> "You are Cynoz",
                 user |-> <<skill_level, tech_stack, project_type, guidance>>],
        exc |-> NoExc]

\* the request is sent; `response` is what comes back
call_groq_api(prompt, response) ==
    IF response.kind = "transport" THEN [ret |-> None, exc |-> "GroqAPIError"]
    ELSE IF response.code # 200 THEN [ret |-> None, exc |-> "GroqAPIError"]
    ELSE IF response.kind = "badshape" THEN [ret |-> None, exc |-> "KeyError"]
    ELSE [ret |-> PyStr(response.text), exc |-> NoExc]

Draft(title, skill_level, tech_stack, project_type, md, html) ==
    [title |-> title, skill_level |-> skill_level, tech_stack |-> tech_stack,
     project_type |-> project_type, content_markdown |-> md, content_html |-> html]

\* the first line that starts with '# ', in order
RECURSIVE FirstHeading(_)
FirstHeading(lines) ==
    IF lines = <<>> THEN <<"New Coding Project">>
    ELSE IF StartsWith(Head(lines), <<"#", " ">>)
         THEN Strip(RemoveHashSpace(Head(lines)))
         ELSE FirstHeading(Tail(lines))

process_api_response(response_text, skill_level, tech_stack, project_type) ==
    LET lines == SplitLines(Strip(response_text))
        title == FirstHeading(lines)
        html  == render(response_text, {"fenced_code", "tables"})
    IN IF html.exc # NoExc THEN [ret |-> None, exc |-> html.exc]
       ELSE [ret |-> Draft(title, skill_level, tech_stack, project_type,
                           response_text, html.ret),
             exc |-> NoExc]

\* the catalogue literal of lines 183-841: each body is its heading line and
\* the rest of the literal as one chunk
templates ==
    [k \in {"beginner_web", "intermediate_web", "advanced_web"} |->
        LET t == CASE k = "beginner_web" -> "Personal Portfolio Website"
                   [] k = "intermediate_web" -> "Weather Dashboard with API Integration"
                   [] OTHER -> "Real-time Collaborative Task Management System"
        IN [title |-> <<t>>,
            content_markdown |-> <<"#", " ", t, "\n", k \o " body">>]]

\* get_fallback_template with the miss policy's title synthesis left out
get_fallback_template_literal_title(skill_level, tech_stack, project_type) ==
    LET key == skill_level \o "_" \o project_type
        template == IF key \in DOMAIN templates THEN templates[key]
                    ELSE templates["beginner_web"]
        html == render(template.content_markdown, {"fenced_code", "tables"})
    IN [ret |-> Draft(template.title, skill_level, tech_stack, project_type,
                      template.content_markdown, html.ret),
        exc |-> html.exc]

\* get_fallback_template over a catalogue that outlives the call: the title a
\* miss wrote onto the beginner_web entry is still there on the next call
get_fallback_template_shared_catalogue(skill_level, tech_stack, project_type) ==
    LET key == skill_level \o "_" \o project_type
        overwritten == [templates EXCEPT !["beginner_web"].title =
                           <<"New ", Capitalize("tool"), " Project with ", "Python">>]
        template ==
            IF key \in DOMAIN overwritten THEN overwritten[key]
            ELSE [overwritten["beginner_web"] EXCEPT
                    !.title = <<"New ", Capitalize(project_type),
                                " Project with ", tech_stack>>]
        html == render(template.content_markdown, {"fenced_code", "tables"})
    IN IF html.exc # NoExc THEN [ret |-> None, exc |-> html.exc]
       ELSE [ret |-> Draft(template.title, skill_level, tech_stack, project_type,
                           template.content_markdown, html.ret),
             exc |-> NoExc]

get_fallback_template(skill_level, tech_stack, project_type) ==
    LET key == skill_level \o "_" \o project_type
        template ==
            IF key \in DOMAIN templates THEN templates[key]
            ELSE [templates["beginner_web"] EXCEPT
                    !.title = <<"New ", Capitalize(project_type),
                                " Project with ", tech_stack>>]
        html == render(template.content_markdown, {"fenced_code", "tables"})
    IN IF html.exc # NoExc THEN [ret |-> None, exc |-> html.exc]
       ELSE [ret |-> Draft(template.title, skill_level, tech_stack, project_type,
                           template.content_markdown, html.ret),
             exc |-> NoExc]

WithRequests(r, n) == [ret |-> r.ret, exc |-> r.exc, requests |-> n]

(***************************************************************************)
(* server/app.py: the /generate request handler.                           *)
(***************************************************************************)
\* return jsonify(body), status
JsonResponse(status, body) == [status |-> status, json |-> body]

\* requests.post(...); response.raise_for_status();
\* response.json()["choices"][0]["message"]["content"]
post_and_read(response) ==
    IF response.kind = "transport" THEN [ret |-> None, exc |-> "ConnectionError"]
    ELSE IF response.code >= 400 THEN [ret |-> None, exc |-> "HTTPError"]
    ELSE IF response.kind = "badshape" THEN [ret |-> None, exc |-> "KeyError"]
    ELSE [ret |-> PyStr(response.text), exc |-> NoExc]

\* generate(): data is the JSON object of the request body
generate(data, response) ==
    LET user_prompt == IF "prompt" \in DOMAIN data THEN data.prompt ELSE PyStr(<<>>)
    IN IF user_prompt = None
       THEN [ret |-> None, exc |-> "AttributeError", requests |-> 0]
       ELSE IF Strip(user_prompt.str) = <<>>
       THEN [ret |-> JsonResponse(400, [error |-> "Prompt cannot be empty"]),
             exc |-> NoExc, requests |-> 0]
       ELSE LET reply == post_and_read(response)
            IN IF reply.exc = NoExc
               THEN [ret |-> JsonResponse(200, [response |-> reply.ret]),
                     exc |-> NoExc, requests |-> 1]
               ELSE [ret |-> JsonResponse(500,
                                [error |-> "Failed to get repsonse form API",
                                 details |-> reply.exc]),
                     exc |-> NoExc, requests |-> 1]

\* the try block without the credential check of lines 27-31
generate_project_try_key_unchecked(skill_level, tech_stack, project_type, key, response) ==
    IF "create_project_prompt" \notin ModuleNames
    THEN [ret |-> None, exc |-> "NameError", requests |-> 0]
    ELSE LET prompt == create_project_prompt(skill_level, tech_stack, project_type)
             reply  == call_groq_api(prompt.ret, response)
         IN IF reply.exc # NoExc
            THEN [ret |-> None, exc |-> reply.exc, requests |-> 1]
            ELSE WithRequests(process_api_response(reply.ret.str, skill_level,
                                                   tech_stack, project_type), 1)

\* the try block of generate_project; requests counts the calls of requests.post
generate_project_try(skill_level, tech_stack, project_type, key, response) ==
    IF key \in {None, PyStr("")}
    THEN WithRequests(get_fallback_template(skill_level, tech_stack, project_type), 0)
    ELSE IF "create_project_prompt" \notin ModuleNames
    THEN [ret |-> None, exc |-> "NameError", requests |-> 0]
    ELSE LET prompt == create_project_prompt(skill_level, tech_stack, project_type)
             reply  == call_groq_api(prompt.ret, response)
         IN IF reply.exc # NoExc
            THEN [ret |-> None, exc |-> reply.exc, requests |-> 1]
            ELSE WithRequests(process_api_response(reply.ret.str, skill_level,
                                                   tech_stack, project_type), 1)

\* generate_project without its except clause
generate_project_no_handler(skill_level, tech_stack, project_type, key, response) ==
    generate_project_try(skill_level, tech_stack, project_type, key, response)

\* generate_project with a handler that sends the request once more before
\* it falls back
generate_project_retrying(skill_level, tech_stack, project_type, key, response) ==
    LET body == generate_project_try(skill_level, tech_stack, project_type,
                                     key, response)
        prompt == create_project_prompt(skill_level, tech_stack, project_type)
        again == call_groq_api(prompt.ret, response)
    IN IF body.exc = NoExc THEN body
       ELSE IF again.exc = NoExc
       THEN WithRequests(process_api_response(again.ret.str, skill_level,
                                              tech_stack, project_type),
                         body.requests + 1)
       ELSE WithRequests(get_fallback_template(skill_level, tech_stack,
                                               project_type), body.requests + 1)

\* try / except Exception: the handler logs and returns the fallback template
\* (current_app is bound: the caller is a request handler)
generate_project(skill_level, tech_stack, project_type, key, response) ==
    LET body == generate_project_try(skill_level, tech_stack, project_type,
                                     key, response)
    IN IF body.exc = NoExc THEN body
       ELSE WithRequests(get_fallback_template(skill_level, tech_stack,
                                               project_type), body.requests)

(***************************************************************************)
(* models/database.py: the projects table.  A row is a record over the     *)
(* table's columns; db maps the ids in use to their rows; seq is the       *)
(* AUTOINCREMENT sequence (the largest id ever given out).                 *)
(***************************************************************************)
TableColumns ==
    {"id", "user_id", "skill_level", "technologies", "project_type", "title",
     "content", "created_timestamp"}

\* NOT NULL columns that have no default
RequiredColumns == {"user_id", "skill_level", "technologies", "project_type"}

EmptyDb == [i \in {} |-> None]

\* the integer a bound id parameter compares equal to (INTEGER affinity turns
\* the text '1' into 1)
IdValue(project_id) == project_id.v

\* the number of characters of str(n)
Digits(n) == IF n < 10 THEN 1 ELSE 2

\* cursor.execute(sql, (x)): (x) is x itself, not a tuple.  An int is refused
\* as a parameter sequence; a str is taken as the sequence of its characters
\* and must supply exactly `holes` values
BindBare(x, holes) ==
    IF x.t = "int" THEN "ProgrammingError"
    ELSE IF Digits(x.v) # holes THEN "ProgrammingError"
    ELSE NoExc

\* INSERT INTO projects (columns of vals) VALUES (...), then cursor.lastrowid
sql_insert(d, sq, vals, ts) ==
    IF ~(DOMAIN vals \subseteq TableColumns)
    THEN [ret |-> None, exc |-> "OperationalError", db |-> d, seq |-> sq]
    ELSE IF ~(RequiredColumns \subseteq DOMAIN vals)
    THEN [ret |-> None, exc |-> "IntegrityError", db |-> d, seq |-> sq]
    ELSE LET id  == sq + 1
             row == [c \in TableColumns |->
                        IF c = "id" THEN id
                        ELSE IF c = "created_timestamp" THEN ts
                        ELSE IF c \in DOMAIN vals THEN vals[c]
                        ELSE None]
         IN [ret |-> PyInt(id), exc |-> NoExc,
             db |-> [k \in DOMAIN d \cup {id} |-> IF k = id THEN row ELSE d[k]],
             seq |-> id]

\* an UPDATE that also stamps the rows it changes with a new creation time
sql_update_restamping(d, vals, id, user_id) ==
    IF ~(DOMAIN vals \subseteq TableColumns)
    THEN [ret |-> 0, exc |-> "OperationalError", db |-> d]
    ELSE LET hit == {k \in DOMAIN d : k = id /\ d[k].user_id = user_id}
         IN [ret |-> Cardinality(hit), exc |-> NoExc,
             db |-> [k \in DOMAIN d |->
                       IF k \in hit
                       THEN [c \in TableColumns |->
                               IF c \in DOMAIN vals THEN vals[c]
                               ELSE IF c = "created_timestamp" THEN 0
                               ELSE d[k][c]]
                       ELSE d[k]]]

\* UPDATE projects SET (columns of vals) WHERE id = ? AND user_id = ?, then
\* cursor.rowcount
sql_update(d, vals, id, user_id) ==
    IF ~(DOMAIN vals \subseteq TableColumns)
    THEN [ret |-> 0, exc |-> "OperationalError", db |-> d]
    ELSE LET hit == {k \in DOMAIN d : k = id /\ d[k].user_id = user_id}
         IN [ret |-> Cardinality(hit), exc |-> NoExc,
             db |-> [k \in DOMAIN d |->
                       IF k \in hit
                       THEN [c \in TableColumns |->
                               IF c \in DOMAIN vals THEN vals[c] ELSE d[k][c]]
                       ELSE d[k]]]

\* DELETE FROM projects WHERE id = ?
sql_delete_any_owner(d, id, user_id) ==
    LET hit == {k \in DOMAIN d : k = id}
    IN [ret |-> Cardinality(hit), exc |-> NoExc,
        db |-> [k \in DOMAIN d \ hit |-> d[k]]]

\* DELETE FROM projects WHERE id = ? and user_id = ?, then cursor.rowcount
sql_delete(d, id, user_id) ==
    LET hit == {k \in DOMAIN d : k = id /\ d[k].user_id = user_id}
    IN [ret |-> Cardinality(hit), exc |-> NoExc,
        db |-> [k \in DOMAIN d \ hit |-> d[k]]]

\* ASCII case folding, as LIKE applies it, on the characters in use
Lower(c) ==
    CASE c = "T" -> "t"
      [] c = "X" -> "x"
      [] c = "A" -> "a"
      [] OTHER -> c

\* text LIKE '%query%'
Like(text, query) ==
    \E i \in 1..(Len(text) - Len(query) + 1) :
        \A j \in 1..Len(query) : Lower(text[i + j - 1]) = Lower(query[j])

\* ORDER BY created_timestamp DESC over the rows ids; rows of one timestamp
\* come out in id order
RECURSIVE OrderByCreatedDesc(_, _)
OrderByCreatedDesc(d, ids) ==
    IF ids = {} THEN <<>>
    ELSE LET first == CHOOSE i \in ids :
                         \A k \in ids :
                            \/ d[i].created_timestamp > d[k].created_timestamp
                            \/ /\ d[i].created_timestamp = d[k].created_timestamp
                               /\ i <= k
         IN <<first>> \o OrderByCreatedDesc(d, ids \ {first})

\* SELECT cols FROM projects WHERE (ids hit) ORDER BY order DESC, then
\* [dict(row) for row in cursor.fetchall()]
sql_select(d, cols, hit, order) ==
    IF ~(cols \cup {order} \subseteq TableColumns)
    THEN [ret |-> <<>>, exc |-> "OperationalError"]
    ELSE LET ids == OrderByCreatedDesc(d, hit)
         IN [ret |-> [n \in 1..Len(ids) |-> [c \in cols |-> d[ids[n]][c]]],
             exc |-> NoExc]

(***************************************************************************)
(* services/project_service.py                                             *)
(***************************************************************************)
TitleMax == 50

extract_title_from_content(content) ==
    IF content = <<>> THEN <<"Untitled Project">>
    ELSE LET lines == SplitLines(Strip(content))
             first_line == Strip(lines[1])
         IN IF StartsWith(first_line, <<"#">>)
            THEN LET title == Strip(LStripHash(first_line))
                 IN IF title # <<>> THEN title ELSE <<"Untitled Project">>
            ELSE IF first_line # <<>> THEN Take(first_line, TitleMax)
                 ELSE <<"Untitled Project">>

\* the columns save_project names in its INSERT
save_project_values(user_id, skill_level, tech_stack, project_type, title, content) ==
    [c \in {"user_id", "skill_level", "tech_stack", "project_type", "title",
            "content"} |->
        CASE c = "user_id" -> user_id
          [] c = "skill_level" -> skill_level
          [] c = "tech_stack" -> tech_stack
          [] c = "project_type" -> project_type
          [] c = "title" -> title
          [] OTHER -> content]

save_project(d, sq, user_id, skill_level, tech_stack, project_type, content, ts) ==
    LET title == extract_title_from_content(content)
        ins == sql_insert(d, sq,
                          save_project_values(user_id, skill_level, tech_stack,
                                              project_type, title, content), ts)
    IN [ret |-> ins.ret, exc |-> ins.exc, db |-> ins.db, seq |-> ins.seq,
        sql |-> <<"INSERT">>]

\* a get_project that stamps the row it returns (UPDATE ... and commit)
get_project_touching_row(d, project_id) ==
    LET bind == BindBare(project_id, 1)
    IN IF bind # NoExc
       THEN [ret |-> None, exc |-> bind, db |-> d, sql |-> <<"SELECT">>]
       ELSE IF IdValue(project_id) \notin DOMAIN d
       THEN [ret |-> None, exc |-> NoExc, db |-> d, sql |-> <<"SELECT">>]
       ELSE [ret |-> d[IdValue(project_id)], exc |-> NoExc,
             db |-> [d EXCEPT ![IdValue(project_id)].created_timestamp = 0],
             sql |-> <<"SELECT", "UPDATE">>]

get_project(d, project_id) ==
    LET bind == BindBare(project_id, 1)
    IN IF bind # NoExc
       THEN [ret |-> None, exc |-> bind, db |-> d, sql |-> <<"SELECT">>]
       ELSE IF IdValue(project_id) \notin DOMAIN d
       THEN [ret |-> None, exc |-> NoExc, db |-> d, sql |-> <<"SELECT">>]
       ELSE LET project == d[IdValue(project_id)]
            IN IF project.content # <<>>
               THEN LET html == render(project.content, {"fenced_code", "cdehilite"})
                    IN IF html.exc # NoExc
                       THEN [ret |-> None, exc |-> html.exc, db |-> d,
                             sql |-> <<"SELECT">>]
                       ELSE [ret |-> [c \in TableColumns \cup {"html_content"} |->
                                        IF c = "html_content" THEN html.ret
                                        ELSE project[c]],
                             exc |-> NoExc, db |-> d, sql |-> <<"SELECT">>]
               ELSE [ret |-> project, exc |-> NoExc, db |-> d, sql |-> <<"SELECT">>]

\* delete_project reporting rowcount >= 0
delete_project_always_true(d, project_id, user_id) ==
    LET del == sql_delete(d, IdValue(project_id), user_id)
    IN [ret |-> PyBool(del.ret >= 0), exc |-> NoExc, db |-> del.db, sql |-> <<"DELETE">>]

delete_project(d, project_id, user_id) ==
    LET del == sql_delete(d, IdValue(project_id), user_id)
    IN [ret |-> PyBool(del.ret > 0), exc |-> NoExc, db |-> del.db, sql |-> <<"DELETE">>]

\* an allow-list that lets skill_level through
allowed_fields_with_skill_level == {"title", "tech_stack", "content", "skill_level"}

allowed_fields == {"title", "tech_stack", "content"}

update_project(d, project_id, user_id, updates) ==
    LET update_fields == [k \in DOMAIN updates \cap allowed_fields |-> updates[k]]
    IN IF DOMAIN update_fields = {}
       THEN [ret |-> PyBool(FALSE), exc |-> NoExc, db |-> d, sql |-> <<>>]
       ELSE LET upd == sql_update(d, update_fields, IdValue(project_id), user_id)
            IN IF upd.exc # NoExc
               THEN [ret |-> None, exc |-> upd.exc, db |-> d, sql |-> <<"UPDATE">>]
               ELSE [ret |-> PyBool(upd.ret > 0), exc |-> NoExc, db |-> upd.db,
                     sql |-> <<"UPDATE">>]

\* LIMIT limit OFFSET offset over the ordered rows
LimitOffset(rows, limit, offset) ==
    LET last_row == IF offset + limit < Len(rows) THEN offset + limit ELSE Len(rows)
    IN SubSeq(rows, offset + 1, last_row)

get_user_projects(d, user_id, limit, offset) ==
    LET hit == {k \in DOMAIN d : d[k].user_id = user_id}
        sel == sql_select(d, {"id", "title", "skill_level", "tech_stack",
                              "project_type", "cretaed_timestamp"},
                          hit, "created_timestamp")
    IN [ret |-> IF sel.exc = NoExc
                THEN PyList(LimitOffset(sel.ret, limit, offset)) ELSE None,
        exc |-> sel.exc, db |-> d, sql |-> <<"SELECT">>]

\* cursor.execute(sql, (user_id)) with user_id a str: the str is taken as the
\* sequence of its characters and must supply exactly `holes` values
BindBareStr(x, holes) ==
    IF Len(x) # holes THEN "ProgrammingError" ELSE NoExc

get_project_count(d, user_id) ==
    IF user_id \notin {None, PyStr("")}
    THEN LET bind == BindBareStr(user_id.str, 1)
         IN IF bind # NoExc
            THEN [ret |-> None, exc |-> bind, db |-> d, sql |-> <<"SELECT">>]
            ELSE [ret |-> PyInt(Cardinality({k \in DOMAIN d :
                                                d[k].user_id = user_id.str})),
                  exc |-> NoExc, db |-> d, sql |-> <<"SELECT">>]
    ELSE [ret |-> PyInt(Cardinality(DOMAIN d)), exc |-> NoExc, db |-> d,
          sql |-> <<"SELECT">>]

\* a filter argument left out, None or '' imposes no condition
Given(filter) == filter # None /\ filter # PyStr("")

search_projects(d, user_id, query, skill_level, project_type) ==
    LET hit == {k \in DOMAIN d :
                  /\ d[k].user_id = user_id
                  /\ query # <<>> => (Like(d[k].title, query) \/ Like(d[k].content, query))
                  /\ Given(skill_level) => PyStr(d[k].skill_level) = skill_level
                  /\ Given(project_type) => PyStr(d[k].project_type) = project_type}
        sel == sql_select(d, {"id", "title", "skill_level", "tech_stack",
                              "project_type", "created_timestamp"},
                          hit, "created_timestamp")
    IN [ret |-> IF sel.exc = NoExc THEN PyList(sel.ret) ELSE None, exc |-> sel.exc,
        db |-> d, sql |-> <<"SELECT">>]

\* project[key] on the dict get_project returned
GetItem(project, key) ==
    IF key \in DOMAIN project
    THEN [ret |-> project[key], exc |-> NoExc]
    ELSE [ret |-> None, exc |-> "KeyError"]

\* the keys the html document's f-string reads, in the order it reads them
HtmlKeys == <<"title", "title", "skill_level", "tech_stack", "project_type",
              "html_content">>

\* the (content, mime_type) pair export_project returns
Exported(content, mime_type) == [content |-> content, mime_type |-> mime_type]

export_project(d, project_id, format) ==
    LET got == get_project(d, project_id)
        project == got.ret
        out(r, e) == [ret |-> r, exc |-> e, db |-> d, sql |-> got.sql]
    IN IF got.exc # NoExc THEN out(None, got.exc)
       ELSE IF project = None THEN out(Exported(None, None), NoExc)
       ELSE IF format = "json"
       THEN out(Exported([json |-> project], PyStr("application/json")), NoExc)
       ELSE IF format = "md"
       THEN out(Exported(PyStr(project.content), PyStr("text/markdown")), NoExc)
       ELSE IF format = "html"
       THEN LET missing == {n \in 1..Len(HtmlKeys) :
                               GetItem(project, HtmlKeys[n]).exc # NoExc}
            IN IF missing # {}
               THEN out(None, "KeyError")
               ELSE out(Exported([html |-> [k \in {HtmlKeys[n] : n \in 1..Len(HtmlKeys)}
                                              |-> project[k]]],
                                 PyStr("text/html")), NoExc)
       ELSE out(Exported(None, None), NoExc)

(***************************************************************************)
(* The record of the last call: its name, arguments and outcome.           *)
(***************************************************************************)
NoArgs == [none |-> TRUE]

Call(op, args, r, sql) ==
    [op |-> op, args |-> args, ret |-> r.ret, exc |-> r.exc, sql |-> sql,
     requests |-> 0]

NoCall ==
    [op |-> "none", args |-> NoArgs, ret |-> None, exc |-> NoExc, sql |-> <<>>,
     requests |-> 0]

GroqIdle == [pc |-> "idle", prompt |-> None, timeout |-> None, responds |-> TRUE]

(***************************************************************************)
(* Generation: one action per entry point of ai_generator.py.              *)
(***************************************************************************)
GenerateProject(skill_level, tech_stack, project_type, response) ==
    LET r == generate_project(skill_level, tech_stack, project_type,
                              GROQ_API_KEY, response)
    IN /\ last' = [op |-> "generate_project",
                   args |-> [skill_level |-> skill_level, tech_stack |-> tech_stack,
                             project_type |-> project_type, response |-> response],
                   ret |-> r.ret, exc |-> r.exc, sql |-> <<>>,
                   requests |-> r.requests]
       /\ UNCHANGED <<conn, GROQ_API_KEY, db, seq, groq>>

\* a direct call of the fallback template source
FallbackTemplate(skill_level, tech_stack, project_type) ==
    LET r == get_fallback_template(skill_level, tech_stack, project_type)
    IN /\ last' = [op |-> "get_fallback_template",
                   args |-> [skill_level |-> skill_level, tech_stack |-> tech_stack,
                             project_type |-> project_type],
                   ret |-> r.ret, exc |-> r.exc, sql |-> <<>>, requests |-> 0]
       /\ UNCHANGED <<conn, GROQ_API_KEY, db, seq, groq>>

\* the JSON bodies posted to /generate: no prompt key, a null prompt, blank
\* prompts and prompts with text
RequestBodies ==
    {[k \in {} |-> None], [prompt |-> None]}
        \cup {[prompt |-> PyStr(t)] :
                 t \in {<<>>, <<" ">>, <<"\n", " ">>, <<"a">>, <<" ", "a", " ">>}}

\* one POST /generate, from the request to the response
Generate(data, response) ==
    LET r == generate(data, response)
    IN /\ last' = [op |-> "generate", args |-> [data |-> data, response |-> response],
                   ret |-> r.ret, exc |-> r.exc, sql |-> <<>>,
                   requests |-> r.requests]
       /\ UNCHANGED <<conn, GROQ_API_KEY, db, seq, groq>>

\* call_groq_api up to requests.post(url, headers=..., json=...): the request
\* leaves with no timeout argument; the endpoint answers it or stays silent
GroqPost(prompt, responds) ==
    /\ groq.pc = "idle"
    /\ groq' = [pc |-> "awaiting", prompt |-> prompt, timeout |-> None,
                responds |-> responds]
    /\ last' = [op |-> "call_groq_api", args |-> [prompt |-> prompt], ret |-> None,
                exc |-> NoExc, sql |-> <<>>, requests |-> 1]
    /\ UNCHANGED <<conn, GROQ_API_KEY, db, seq>>

\* call_groq_api from the return of requests.post to its own return or raise
GroqReturn(response) ==
    /\ groq.pc = "awaiting"
    /\ groq.responds
    /\ LET r == call_groq_api(groq.prompt, response)
       IN last' = [op |-> "call_groq_api",
                   args |-> [prompt |-> groq.prompt, response |-> response],
                   ret |-> r.ret, exc |-> r.exc, sql |-> <<>>, requests |-> 1]
    /\ groq' = GroqIdle
    /\ UNCHANGED <<conn, GROQ_API_KEY, db, seq>>

(***************************************************************************)
(* The store: one action per operation of project_service.py.  The         *)
(* database file outlives the process (init_db only creates the table IF   *)
(* NOT EXISTS), so a run starts on whatever rows the file holds.           *)
(***************************************************************************)
MaxRows == 2

\* readings of CURRENT_TIMESTAMP
Timestamps == {1}

\* the markdown body of the rows the file holds at the start
SeedContent == <<"#", " ", "T">>

SeedRow(id, user_id) ==
    [c \in TableColumns |->
        CASE c = "id" -> id
          [] c = "user_id" -> user_id
          [] c = "skill_level" -> "beginner"
          [] c = "technologies" -> "HTML, CSS"
          [] c = "project_type" -> "web"
          [] c = "title" -> extract_title_from_content(SeedContent)
          [] c = "content" -> SeedContent
          [] OTHER -> id]

SeedDbs ==
    UNION {[S -> Owners] : S \in SUBSET (1..MaxRows)}

SeedDb(owner) == [i \in DOMAIN owner |-> SeedRow(i, owner[i])]

\* the ids callers pass: an int (as save_project returns it) or its text (as a
\* URL or form carries it); one id beyond the table is never in use
ProjectIds == [t : {"int", "str"}, v : 1..(MaxRows + 1)]

IntIds == {i \in ProjectIds : i.t = "int"}

\* the values an update may carry, by key
UpdateValue ==
    [k \in {"title", "tech_stack", "content", "skill_level"} |->
        CASE k = "title" -> <<"X">>
          [] k = "tech_stack" -> "Python"
          [] k = "content" -> <<>>
          [] OTHER -> "advanced"]

UpdateKeySets ==
    {{}, {"skill_level"}, {"title"}, {"tech_stack"}, {"content"},
     {"title", "skill_level"}, {"title", "content"}, {"title", "tech_stack"}}

UpdateMaps == {[k \in K |-> UpdateValue[k]] : K \in UpdateKeySets}

\* what save_project is called with, besides the owner
SaveInputs ==
    {[skill_level |-> "beginner", tech_stack |-> "HTML, CSS", project_type |-> "web",
      content |-> <<"#", " ", "a">>],
     [skill_level |-> "advanced", tech_stack |-> "Python", project_type |-> "tool",
      content |-> <<"a">>],
     [skill_level |-> "intermediate", tech_stack |-> "Python", project_type |-> "web",
      content |-> <<>>]}

SaveProject(user_id, skill_level, tech_stack, project_type, content, ts) ==
    LET r == save_project(db, seq, user_id, skill_level, tech_stack, project_type,
                          content, ts)
    IN /\ db' = r.db
       /\ seq' = r.seq
       /\ last' = Call("save_project",
                       [user_id |-> user_id, skill_level |-> skill_level,
                        tech_stack |-> tech_stack, project_type |-> project_type,
                        content |-> content], r, r.sql)
       /\ UNCHANGED <<conn, GROQ_API_KEY, groq>>

GetProject(project_id) ==
    LET r == get_project(db, project_id)
    IN /\ db' = r.db
       /\ last' = Call("get_project", [project_id |-> project_id], r, r.sql)
       /\ UNCHANGED <<conn, GROQ_API_KEY, seq, groq>>

DeleteProject(project_id, user_id) ==
    LET r == delete_project(db, project_id, user_id)
    IN /\ db' = r.db
       /\ last' = Call("delete_project",
                       [project_id |-> project_id, user_id |-> user_id], r, r.sql)
       /\ UNCHANGED <<conn, GROQ_API_KEY, seq, groq>>

UpdateProject(project_id, user_id, updates) ==
    LET r == update_project(db, project_id, user_id, updates)
    IN /\ db' = r.db
       /\ last' = Call("update_project",
                       [project_id |-> project_id, user_id |-> user_id,
                        updates |-> updates], r, r.sql)
       /\ UNCHANGED <<conn, GROQ_API_KEY, seq, groq>>

\* the queries, and the optional filters, a search is called with
Queries == {<<>>, <<"t">>, <<"X">>, <<"z">>}

SkillFilters == {None, PyStr("beginner"), PyStr("advanced")}

TypeFilters == {None, PyStr("web")}

SearchProjects(user_id, query, skill_level, project_type) ==
    LET r == search_projects(db, user_id, query, skill_level, project_type)
    IN /\ db' = r.db
       /\ last' = Call("search_projects",
                       [user_id |-> user_id, query |-> query,
                        skill_level |-> skill_level, project_type |-> project_type],
                       r, r.sql)
       /\ UNCHANGED <<conn, GROQ_API_KEY, seq, groq>>

\* the format names callers pass
Formats == {"json", "md", "markdown", "html", "pdf"}

ExportProject(project_id, format) ==
    LET r == export_project(db, project_id, format)
    IN /\ db' = r.db
       /\ last' = Call("export_project",
                       [project_id |-> project_id, format |-> format], r, r.sql)
       /\ UNCHANGED <<conn, GROQ_API_KEY, seq, groq>>

\* the page sizes and offsets a listing is called with (10 is the default)
Limits == {0, 1, 10}

Offsets == {0, 1}

GetUserProjects(user_id, limit, offset) ==
    LET r == get_user_projects(db, user_id, limit, offset)
    IN /\ db' = r.db
       /\ last' = Call("get_user_projects",
                       [user_id |-> user_id, limit |-> limit, offset |-> offset],
                       r, r.sql)
       /\ UNCHANGED <<conn, GROQ_API_KEY, seq, groq>>

\* the owners a count is asked for: none (all rows), the empty string, a
\* one-character name, and the owners of the rows
CountOwners == {None, PyStr(""), PyStr("u")} \cup {PyStr(u) : u \in Owners}

GetProjectCount(user_id) ==
    LET r == get_project_count(db, user_id)
    IN /\ db' = r.db
       /\ last' = Call("get_project_count", [user_id |-> user_id], r, r.sql)
       /\ UNCHANGED <<conn, GROQ_API_KEY, seq, groq>>

(***************************************************************************)
(* Concurrent requests.  Each request runs update_project or               *)
(* delete_project on a connection of its own (get_db_connection): it       *)
(* connects, executes its one statement, reads cursor.rowcount, commits    *)
(* and returns.  The statement takes the file's write lock, which the      *)
(* connection keeps until its commit; what it wrote is its own image of    *)
(* the table until then.  A statement that finds the lock taken waits for  *)
(* sqlite3.connect's default timeout and then raises OperationalError      *)
(* (database is locked).                                                   *)
(***************************************************************************)
Workers == {"w1", "w2"}

ConnClosed ==
    [pc |-> "closed", op |-> "none", args |-> NoArgs, rowcount |-> 0,
     image |-> EmptyDb]

\* update_fields = {k: v for k, v in updates.items() if k in allowed_fields}
update_fields(updates) == [k \in DOMAIN updates \cap allowed_fields |-> updates[k]]

\* the statement a connected request is about to execute, run on table d
Statement(c, d) ==
    IF c.op = "delete_project"
    THEN sql_delete(d, IdValue(c.args.project_id), c.args.user_id)
    ELSE sql_update(d, update_fields(c.args.updates), IdValue(c.args.project_id),
                    c.args.user_id)

\* some other connection holds the write lock
Locked(w) == \E v \in Workers \ {w} : conn[v].pc = "executed"

\* delete_project up to conn = get_db_connection()
DeleteBegin(w, project_id, user_id) ==
    /\ conn[w].pc = "closed"
    /\ conn' = [conn EXCEPT ![w] =
                  [pc |-> "connected", op |-> "delete_project",
                   args |-> [project_id |-> project_id, user_id |-> user_id],
                   rowcount |-> 0, image |-> EmptyDb]]
    /\ UNCHANGED <<GROQ_API_KEY, db, seq, last, groq>>

\* update_project up to conn = get_db_connection(), or to its early return
UpdateBegin(w, project_id, user_id, updates) ==
    /\ conn[w].pc = "closed"
    /\ LET args == [project_id |-> project_id, user_id |-> user_id,
                    updates |-> updates]
       IN IF DOMAIN update_fields(updates) = {}
          THEN /\ last' = Call("update_project", args,
                               [ret |-> PyBool(FALSE), exc |-> NoExc], <<>>)
               /\ conn' = conn
          ELSE /\ conn' = [conn EXCEPT ![w] =
                             [pc |-> "connected", op |-> "update_project",
                              args |-> args, rowcount |-> 0, image |-> EmptyDb]]
               /\ last' = last
    /\ UNCHANGED <<GROQ_API_KEY, db, seq, groq>>

\* cursor.execute(...): the statement is compiled (an unknown column raises
\* here), then takes the write lock and runs
Execute(w) ==
    /\ conn[w].pc = "connected"
    /\ LET r == Statement(conn[w], db)
       IN IF r.exc # NoExc
          THEN /\ last' = Call(conn[w].op, conn[w].args,
                               [ret |-> None, exc |-> r.exc],
                               <<IF conn[w].op = "delete_project"
                                 THEN "DELETE" ELSE "UPDATE">>)
               /\ conn' = [conn EXCEPT ![w] = ConnClosed]
          ELSE /\ ~Locked(w)
               /\ conn' = [conn EXCEPT ![w].pc = "executed",
                                       ![w].rowcount = r.ret,
                                       ![w].image = r.db]
               /\ last' = last
    /\ UNCHANGED <<GROQ_API_KEY, db, seq, groq>>

\* cursor.execute(...) while another connection holds the write lock, past
\* the timeout
BusyTimeout(w) ==
    /\ conn[w].pc = "connected"
    /\ Statement(conn[w], db).exc = NoExc
    /\ Locked(w)
    /\ last' = Call(conn[w].op, conn[w].args,
                    [ret |-> None, exc |-> "OperationalError"],
                    <<IF conn[w].op = "delete_project" THEN "DELETE" ELSE "UPDATE">>)
    /\ conn' = [conn EXCEPT ![w] = ConnClosed]
    /\ UNCHANGED <<GROQ_API_KEY, db, seq, groq>>

\* rowcount > 0; conn.commit(); conn.close(); return
Commit(w) ==
    /\ conn[w].pc = "executed"
    /\ db' = conn[w].image
    /\ last' = Call(conn[w].op, conn[w].args,
                    [ret |-> PyBool(conn[w].rowcount > 0), exc |-> NoExc],
                    <<IF conn[w].op = "delete_project" THEN "DELETE" ELSE "UPDATE">>)
    /\ conn' = [conn EXCEPT ![w] = ConnClosed]
    /\ UNCHANGED <<GROQ_API_KEY, seq, groq>>

Init ==
    /\ GROQ_API_KEY = None
    /\ \E owner \in SeedDbs : db = SeedDb(owner)
    /\ seq = MaxRows
    /\ last = NoCall
    /\ groq = GroqIdle
    /\ conn = [w \in Workers |-> ConnClosed]

Next ==
    \/ \E u \in Owners, a \in SaveInputs, ts \in Timestamps :
          SaveProject(u, a.skill_level, a.tech_stack, a.project_type, a.content, ts)
    \/ \E i \in ProjectIds : GetProject(i)
    \/ \E i \in IntIds, u \in Owners : DeleteProject(i, u)
    \/ \E i \in IntIds, u \in Owners, m \in UpdateMaps : UpdateProject(i, u, m)

Spec == Init /\ [][Next]_vars

InitGen ==
    /\ GROQ_API_KEY \in ApiKeys
    /\ db = EmptyDb
    /\ seq = 0
    /\ last = NoCall
    /\ groq = GroqIdle
    /\ conn = [w \in Workers |-> ConnClosed]

NextGen ==
    \/ \E s \in Skills, t \in TechStacks, p \in ProjectTypes, r \in Responses :
          GenerateProject(s, t, p, r)
    \/ \E s \in Skills, b \in BOOLEAN :
          GroqPost(create_project_prompt(s, "Python", "web").ret, b)
    \/ \E r \in Responses : GroqReturn(r)
    \/ \E s \in Skills, t \in TechStacks, p \in ProjectTypes : FallbackTemplate(s, t, p)
    \/ \E d \in RequestBodies, r \in Responses : Generate(d, r)

GenSpec == InitGen /\ [][NextGen]_vars

\* the one id the concurrent requests contend for
ConcId == [t |-> "int", v |-> 1]

ConcUpdateMaps ==
    {[k \in K |-> UpdateValue[k]] : K \in {{"skill_level"}, {"title"}, {"tech_stack"}}}

InitConc ==
    /\ GROQ_API_KEY = None
    /\ \E u \in Owners : db = SeedDb([i \in {1} |-> u])
    /\ seq = 1
    /\ last = NoCall
    /\ groq = GroqIdle
    /\ conn = [w \in Workers |-> ConnClosed]

NextConc ==
    \/ \E w \in Workers, u \in Owners : DeleteBegin(w, ConcId, u)
    \/ \E w \in Workers, u \in Owners, m \in ConcUpdateMaps :
          UpdateBegin(w, ConcId, u, m)
    \/ \E w \in Workers : Execute(w)
    \/ \E w \in Workers : BusyTimeout(w)
    \/ \E w \in Workers : Commit(w)

ConcSpec == InitConc /\ [][NextConc]_vars

\* the updates that vary what the read operations find
ReadUpdateMaps == {[k \in K |-> UpdateValue[k]] : K \in {{"title"}, {"content"}}}

NextRead ==
    \/ \E i \in IntIds, u \in Owners, m \in ReadUpdateMaps : UpdateProject(i, u, m)
    \/ \E u \in Owners, q \in Queries, s \in SkillFilters, p \in TypeFilters :
          SearchProjects(u, q, s, p)
    \/ \E i \in ProjectIds, f \in Formats : ExportProject(i, f)
    \/ \E i \in ProjectIds : GetProject(i)
    \/ \E u \in Owners, l \in Limits, o \in Offsets : GetUserProjects(u, l, o)
    \/ \E u \in CountOwners : GetProjectCount(u)
    \/ \E i \in IntIds, u \in Owners : DeleteProject(i, u)

ReadSpec == Init /\ [][NextRead]_vars

\* the read operations next to the one update that empties a row's content
\* (the rows get_project can return)
NextFrame ==
    \/ \E i \in IntIds, u \in Owners : UpdateProject(i, u, [content |-> <<>>])
    \/ \E i \in ProjectIds : GetProject(i)
    \/ \E i \in ProjectIds, f \in {"json", "html", "pdf"} : ExportProject(i, f)
    \/ \E u \in Owners, q \in {<<>>, <<"t">>} : SearchProjects(u, q, None, None)
    \/ \E u \in Owners : GetUserProjects(u, 10, 0)
    \/ \E u \in CountOwners : GetProjectCount(u)

FrameSpec == Init /\ [][NextFrame]_vars

(***************************************************************************)
(* Title derivation: the two functions that compute a title from a         *)
(* markdown body, applied to one body M (held in last.args.content).       *)
(***************************************************************************)
TextMaxLen == 5

\* every text over Alphabet of at most TextMaxLen characters
Texts == UNION {[1..n -> Alphabet] : n \in 0..TextMaxLen}

InitText ==
    /\ GROQ_API_KEY = None
    /\ db = EmptyDb
    /\ seq = 0
    /\ \E M \in Texts :
          last = [op |-> "none", args |-> [content |-> M], ret |-> None,
                  exc |-> NoExc, sql |-> <<>>, requests |-> 0]
    /\ groq = GroqIdle
    /\ conn = [w \in Workers |-> ConnClosed]

ExtractTitle ==
    /\ last' = Call("extract_title_from_content", [content |-> last.args.content],
                    [ret |-> PyStr(extract_title_from_content(last.args.content)),
                     exc |-> NoExc], <<>>)
    /\ UNCHANGED <<conn, GROQ_API_KEY, db, seq, groq>>

ProcessApiResponse(skill_level, tech_stack, project_type) ==
    /\ last' = Call("process_api_response", [content |-> last.args.content],
                    process_api_response(last.args.content, skill_level, tech_stack,
                                         project_type), <<>>)
    /\ UNCHANGED <<conn, GROQ_API_KEY, db, seq, groq>>

NextText ==
    \/ ExtractTitle
    \/ ProcessApiResponse("beginner", "Python", "web")

TextSpec == InitText /\ [][NextText]_vars

(***************************************************************************)
(* Properties of the generation pipeline (checked under GenSpec).          *)
(***************************************************************************)
IsGenerate == last.op = "generate_project"

RemoteFailed ==
    GROQ_API_KEY \in {None, PyStr("")} \/ last.args.response.kind # "ok"

\* C1: whatever the credential and the remote outcome, generate_project
\* returns (no exception leaves it) a draft whose title and content_markdown
\* are both non-empty.
C1_AlwaysUsableDraft ==
    IsGenerate =>
        /\ last.exc = NoExc
        /\ NonEmpty(last.ret.title)
        /\ NonEmpty(last.ret.content_markdown)

C1_Witness ==
    /\ IsGenerate
    /\ GROQ_API_KEY = PyStr("gsk_key")
    /\ last.args.response.kind = "status"
    /\ last.exc = NoExc
    /\ NonEmpty(last.ret.title)

\* C2: when the remote call fails (no credential, transport, status, shape)
\* the draft's title and content_markdown are the catalogue entry of
\* (skill_level, project_type) when there is one, and otherwise the
\* (beginner, web) body under the synthesized title; generate("beginner",
\* "HTML, CSS", "web") without a credential is titled "Personal Portfolio
\* Website".
C2_FallbackSelection ==
    (IsGenerate /\ RemoteFailed) =>
        LET a   == last.args
            key == a.skill_level \o "_" \o a.project_type
        IN /\ last.exc = NoExc
           /\ key \in {"beginner_web", "intermediate_web", "advanced_web"} =>
                /\ last.ret.title = templates[key].title
                /\ last.ret.content_markdown = templates[key].content_markdown
           /\ key \notin {"beginner_web", "intermediate_web", "advanced_web"} =>
                /\ last.ret.title = <<"New ", Capitalize(a.project_type),
                                      " Project with ", a.tech_stack>>
                /\ last.ret.content_markdown =
                       templates["beginner_web"].content_markdown
           /\ (key = "beginner_web" /\ a.tech_stack = "HTML, CSS") =>
                last.ret.title = <<"Personal Portfolio Website">>

C2_Witness ==
    /\ IsGenerate
    /\ GROQ_API_KEY = PyStr("gsk_key")
    /\ last.args.response.kind = "transport"
    /\ last.args.skill_level = "advanced"
    /\ last.args.project_type = "tool"
    /\ last.ret.title = <<"New ", "Tool", " Project with ", last.args.tech_stack>>

\* C3: with a credential and a remote success with body T, exactly one request
\* is made and the draft returned is process_api_response's draft of T.
C3_RemoteSuccessProcessed ==
    (IsGenerate /\ GROQ_API_KEY \notin {None, PyStr("")} /\ last.args.response.kind = "ok") =>
        LET a == last.args
        IN /\ last.requests = 1
           /\ last.ret = process_api_response(a.response.text, a.skill_level,
                                              a.tech_stack, a.project_type).ret

\* C4: the remote call is bounded: a request in flight carries a timeout, or
\* an answer that ends the call is on its way.
C4_RemoteCallBounded ==
    groq.pc = "awaiting" =>
        \/ groq.timeout # None
        \/ ENABLED (\E r \in Responses : GroqReturn(r))

\* C16: whenever call_groq_api does not return the generated text it raises
\* GroqAPIError: on a transport failure, on a status other than 200 and on a
\* 200 body without choices[0].message.content; nothing else leaves it.
C16_TypedRemoteErrors ==
    (last.op = "call_groq_api" /\ "response" \in DOMAIN last.args) =>
        /\ last.exc \in {NoExc, "GroqAPIError"}
        /\ last.args.response.kind \in {"transport", "status", "badshape"} =>
              last.exc = "GroqAPIError"
        /\ last.args.response.kind = "ok" =>
              last.exc = NoExc /\ last.ret = PyStr(last.args.response.text)

\* C17: in every state, whatever calls came before (calls whose key is not in
\* the catalogue included), a get_fallback_template call has returned without
\* raising, with a non-empty title and a non-empty markdown body, and for
\* (beginner, web) the title is the literal "Personal Portfolio Website".
C17_CatalogueNeverMutated ==
    (last.op = "get_fallback_template") =>
        /\ last.exc = NoExc
        /\ last.ret.title # <<>>
        /\ last.ret.content_markdown # <<>>
        /\ (last.args.skill_level = "beginner" /\ last.args.project_type = "web") =>
              last.ret.title = <<"Personal Portfolio Website">>

C17_Witness ==
    /\ last.op = "get_fallback_template"
    /\ last.args.skill_level = "beginner"
    /\ last.args.project_type = "web"
    /\ last.exc = NoExc
    /\ last.ret.title = templates["beginner_web"].title
    /\ last.ret.content_markdown = templates["beginner_web"].content_markdown

\* C21: one call of generate_project sends at most one request; when its try
\* block fails, nothing more is sent and what it returns is the fallback
\* template for its arguments; one call of call_groq_api sends exactly one
\* request, whatever comes back.
C21_AtMostOneRequest ==
    /\ IsGenerate =>
          LET a == last.args
              body == generate_project_try(a.skill_level, a.tech_stack,
                                           a.project_type, GROQ_API_KEY, a.response)
          IN /\ last.requests <= 1
             /\ body.exc # NoExc =>
                   /\ last.requests = body.requests
                   /\ last.exc = NoExc
                   /\ last.ret = get_fallback_template(a.skill_level, a.tech_stack,
                                                       a.project_type).ret
    /\ last.op = "call_groq_api" => last.requests = 1

\* a call with a credential has failed and returned the fallback template
C21_Witness ==
    /\ IsGenerate
    /\ GROQ_API_KEY = PyStr("gsk_key")
    /\ last.args.response.kind = "ok"
    /\ last.requests <= 1
    /\ last.ret.content_markdown
           = templates[last.args.skill_level \o "_web"].content_markdown
    /\ last.args.project_type = "web"

\* the request carries no prompt, or one that is empty or only whitespace
BlankPrompt(data) ==
    "prompt" \in DOMAIN data => (data.prompt # None /\ Strip(data.prompt.str) = <<>>)

\* C22: the /generate handler answers a request whose prompt is missing, empty
\* or only whitespace with status 400 and an error body, sending no remote
\* request; every other request, whatever the remote call does, is answered
\* with content and never with an error response.  Stated for bodies whose
\* prompt, when present, is a string.
C22_OnlyBlankPromptRejected ==
    (last.op = "generate"
        /\ ("prompt" \in DOMAIN last.args.data => last.args.data.prompt # None)) =>
        /\ last.exc = NoExc
        /\ BlankPrompt(last.args.data) =>
              /\ last.ret.status = 400
              /\ "error" \in DOMAIN last.ret.json
              /\ last.requests = 0
        /\ ~BlankPrompt(last.args.data) =>
              /\ last.ret.status = 200
              /\ "error" \notin DOMAIN last.ret.json

\* C24: with the credential absent or empty, generate_project sends no request
\* and returns the fallback template for its arguments from inside its try
\* block, which ends without an exception: neither the prompt builder nor the
\* remote client has been called.
C24_NoCredentialNoRequest ==
    (IsGenerate /\ GROQ_API_KEY \in {None, PyStr("")}) =>
        LET a == last.args
            body == generate_project_try(a.skill_level, a.tech_stack,
                                         a.project_type, GROQ_API_KEY, a.response)
        IN /\ last.requests = 0
           /\ last.exc = NoExc
           /\ body.exc = NoExc
           /\ last.ret = get_fallback_template(a.skill_level, a.tech_stack,
                                               a.project_type).ret

C24_Witness ==
    /\ IsGenerate
    /\ GROQ_API_KEY = PyStr("")
    /\ last.args.response.kind = "ok"
    /\ last.requests = 0
    /\ last.ret.title = templates["intermediate_web"].title

(***************************************************************************)
(* Properties of the project store (checked under Spec).                   *)
(***************************************************************************)
\* C5: save_project returns an id under which get_project finds the saved
\* content, with the HTML render(M) of the fenced-code and tables extensions.
C5_SaveGetRoundTrip ==
    last.op = "save_project" =>
        /\ last.exc = NoExc
        /\ LET g == get_project(db, [t |-> "int", v |-> last.ret.int])
           IN /\ g.exc = NoExc
              /\ g.ret.content = last.args.content
              /\ last.args.content # <<>> =>
                    g.ret.html_content =
                        render(last.args.content, {"fenced_code", "tables"}).ret

\* C6: an update by another owner returns false and changes nothing; an update
\* of the title by the owner returns true and get_project then shows it.
C6_OwnerScopedUpdate ==
    [][(last'.op = "update_project"
            /\ IdValue(last'.args.project_id) \in DOMAIN db) =>
         LET a  == last'.args
             id == IdValue(a.project_id)
         IN /\ a.user_id # db[id].user_id =>
                  last'.exc = NoExc /\ last'.ret = PyBool(FALSE) /\ db' = db
            /\ (a.user_id = db[id].user_id /\ a.updates = [title |-> <<"X">>]) =>
                  /\ last'.exc = NoExc /\ last'.ret = PyBool(TRUE)
                  /\ LET g == get_project(db', a.project_id)
                     IN g.exc = NoExc /\ g.ret.title = <<"X">>]_vars

\* C7: delete_project returns true exactly when a row with that id and that
\* owner existed, and then that row alone is removed; otherwise (another
\* owner, no such id) it returns false and every row is still there.
C7_OwnerScopedDelete ==
    [][last'.op = "delete_project" =>
         LET a  == last'.args
             id == IdValue(a.project_id)
             existed == id \in DOMAIN db /\ db[id].user_id = a.user_id
         IN /\ last'.exc = NoExc
            /\ last'.ret = PyBool(existed)
            /\ existed => db' = [k \in DOMAIN db \ {id} |-> db[k]]
            /\ ~existed => db' = db]_vars

C7_Witness ==
    /\ last.op = "delete_project"
    /\ last.ret = PyBool(FALSE)
    /\ IdValue(last.args.project_id) \in DOMAIN db
    /\ db[IdValue(last.args.project_id)].user_id # last.args.user_id

\* C8: a project in the store stays in the store, under the same owner,
\* through every operation except delete_project called with its id and its
\* owner.
C8_DestroyedOnlyByOwnerDelete ==
    [][\A id \in DOMAIN db :
          \/ id \in DOMAIN db' /\ db'[id].user_id = db[id].user_id
          \/ /\ last'.op = "delete_project"
             /\ IdValue(last'.args.project_id) = id
             /\ last'.args.user_id = db[id].user_id
             /\ last'.ret = PyBool(TRUE)]_vars

C8_Witness ==
    /\ last.op = "delete_project"
    /\ last.ret = PyBool(TRUE)
    /\ IdValue(last.args.project_id) \notin DOMAIN db
    /\ db # EmptyDb

\* C9: update_project writes every allow-listed key it is given, ignores the
\* others without error, and leaves id, owner, skill level, project type and
\* creation time of every row as they were.
C9_AllowListApplied ==
    [][last'.op = "update_project" =>
         LET a  == last'.args
             id == IdValue(a.project_id)
         IN /\ last'.exc = NoExc
            /\ DOMAIN db' = DOMAIN db
            /\ \A k \in DOMAIN db :
                  \A c \in {"id", "user_id", "skill_level", "project_type",
                            "created_timestamp"} : db'[k][c] = db[k][c]
            /\ (id \in DOMAIN db /\ db[id].user_id = a.user_id) =>
                  \A f \in DOMAIN a.updates \cap {"title", "tech_stack", "content"} :
                      db'[id][IF f = "tech_stack" THEN "technologies" ELSE f]
                          = a.updates[f]]_vars

\* C10: an update that carries no allow-listed key returns false and sends no
\* statement to the store, whether or not the id and the owner match a row.
C10_NoAllowedFieldNoWrite ==
    [][(last'.op = "update_project"
            /\ DOMAIN last'.args.updates \cap {"title", "tech_stack", "content"} = {}) =>
         /\ last'.exc = NoExc
         /\ last'.ret = PyBool(FALSE)
         /\ last'.sql = <<>>
         /\ db' = db]_vars

C10_Witness ==
    /\ last.op = "update_project"
    /\ last.args.updates = [skill_level |-> "advanced"]
    /\ IdValue(last.args.project_id) \in DOMAIN db
    /\ db[IdValue(last.args.project_id)].user_id = last.args.user_id
    /\ last.ret = PyBool(FALSE)
    /\ last.sql = <<>>

C11_SecondCommitterReportsFalse ==
    [][\A w \in Workers :
          (/\ conn[w].pc # "closed"
           /\ conn'[w].pc = "closed"
           /\ conn[w].op = "update_project" => "tech_stack" \notin DOMAIN conn[w].args.updates) =>
             LET a == conn[w].args
                 id == IdValue(a.project_id)
                 matched == id \in DOMAIN db /\ db[id].user_id = a.user_id
             IN /\ last'.exc = NoExc
                /\ last'.ret = PyBool(matched)
                /\ (conn[w].op = "delete_project" /\ matched) => id \notin DOMAIN db'
                /\ ~matched => db' = db]_vars

(***************************************************************************)
(* Properties of the read operations (checked under ReadSpec).             *)
(***************************************************************************)
\* the rows of owner user_id that a search for query with the given filters
\* is to return
Matching(user_id, query, skill_level, project_type) ==
    {k \in DOMAIN db :
        /\ db[k].user_id = user_id
        /\ query # <<>> => (Like(db[k].title, query) \/ Like(db[k].content, query))
        /\ skill_level # None => PyStr(db[k].skill_level) = skill_level
        /\ project_type # None => PyStr(db[k].project_type) = project_type}

\* C12: search_projects never raises and returns exactly the rows of the owner
\* that contain the query (when it is non-empty) in title or content and equal
\* every filter given, newest first; nothing matching gives the empty sequence.
C12_SearchReturnsMatches ==
    (last.op = "search_projects") =>
        LET a == last.args
            ids == Matching(a.user_id, a.query, a.skill_level, a.project_type)
        IN /\ last.exc = NoExc
           /\ Len(last.ret.list) = Cardinality(ids)
           /\ {last.ret.list[n].id : n \in 1..Len(last.ret.list)} = ids
           /\ \A n \in 1..(Len(last.ret.list) - 1) :
                 last.ret.list[n].created_timestamp
                     >= last.ret.list[n + 1].created_timestamp

\* C13: for an id in use, export_project returns, without raising, the stored
\* content with media type text/markdown for format "markdown", the whole
\* record serialized with media type application/json for "json", and a
\* document holding title, metadata and rendered body with media type
\* text/html for "html".  Stated for the calls whose lookup of the row
\* succeeds: where get_project itself raises (C5), export_project raises too.
C13_ExportFormats ==
    (/\ last.op = "export_project"
     /\ IdValue(last.args.project_id) \in DOMAIN db
     /\ get_project(db, last.args.project_id).exc = NoExc
     /\ last.args.format \in {"json", "markdown", "html"}) =>
        LET row == db[IdValue(last.args.project_id)]
            out == last.ret
        IN /\ last.exc = NoExc
           /\ last.args.format = "markdown" =>
                 /\ out.content = PyStr(row.content)
                 /\ out.mime_type = PyStr("text/markdown")
           /\ last.args.format = "json" =>
                 /\ out.mime_type = PyStr("application/json")
                 /\ "json" \in DOMAIN out.content
                 /\ \A c \in TableColumns : out.content.json[c] = row[c]
           /\ last.args.format = "html" =>
                 /\ out.mime_type = PyStr("text/html")
                 /\ "html" \in DOMAIN out.content
                 /\ out.content.html.title = row.title
                 /\ out.content.html.skill_level = row.skill_level
                 /\ out.content.html.project_type = row.project_type

\* C14: get_project of an id not in use returns None, and export_project of
\* an id not in use, or with a format it does not support, returns
\* (None, None); neither raises and the table is left as it was.
C14_AbsentOrUnsupportedNeverRaises ==
    [][/\ (last'.op = "get_project"
              /\ IdValue(last'.args.project_id) \notin DOMAIN db) =>
            /\ last'.exc = NoExc
            /\ last'.ret = None
            /\ db' = db
       /\ (last'.op = "export_project"
              /\ \/ IdValue(last'.args.project_id) \notin DOMAIN db
                 \/ last'.args.format \notin {"json", "md", "markdown", "html"}) =>
            /\ last'.exc = NoExc
            /\ last'.ret = Exported(None, None)
            /\ db' = db]_vars

(***************************************************************************)
(* Properties of title derivation (checked under TextSpec).                *)
(***************************************************************************)
\* C18: for every markdown body M, the title extract_title_from_content
\* derives from M (the one save_project stores) is the title
\* process_api_response put in the draft made from M.
C18_TitleDerivationConsistent ==
    LET M == last.args.content
    IN /\ last.op = "process_api_response" =>
             last.ret.title = extract_title_from_content(M)
       /\ last.op = "extract_title_from_content" =>
             last.ret = PyStr(process_api_response(M, "beginner", "Python",
                                                   "web").ret.title)

\* the title the response processor is to give: the first line that begins
\* with the heading marker '# ', without the marker, trimmed
RECURSIVE HeadingTitle(_)
HeadingTitle(lines) ==
    IF lines = <<>> THEN <<"New Coding Project">>
    ELSE IF StartsWith(Head(lines), <<"#", " ">>)
         THEN Strip(SubSeq(Head(lines), 3, Len(Head(lines))))
         ELSE HeadingTitle(Tail(lines))

\* C23: the draft process_api_response makes of raw_text is titled by the
\* first line that begins with the heading marker (marker removed, rest
\* trimmed) or "New Coding Project" when there is none, carries the
\* skill_level, tech_stack and project_type it was given, and has
\* content_markdown = raw_text and content_html = render(raw_text).
C23_ResponseProcessed ==
    (last.op = "process_api_response") =>
        LET M == last.args.content
        IN /\ last.exc = NoExc
           /\ last.ret.title = HeadingTitle(SplitLines(Strip(M)))
           /\ last.ret.skill_level = "beginner"
           /\ last.ret.tech_stack = "Python"
           /\ last.ret.project_type = "web"
           /\ last.ret.content_markdown = M
           /\ last.ret.content_html = render(M, {"fenced_code", "tables"}).ret

(***************************************************************************)
(* Properties of listing and counting (checked under ReadSpec; C25 under   *)
(* FrameSpec).                                                             *)
(***************************************************************************)
\* C19: get_user_projects returns, without raising, summaries (no content
\* field) of rows of the owner only, newest first: the rows that come after
\* the first `offset` of the owner's rows in that order, at most `limit` of
\* them.
C19_ListingPagedNewestFirst ==
    (last.op = "get_user_projects") =>
        LET a == last.args
            owned == OrderByCreatedDesc(db, {k \in DOMAIN db : db[k].user_id = a.user_id})
            page == LimitOffset(owned, a.limit, a.offset)
        IN /\ last.exc = NoExc
           /\ Len(last.ret.list) = Len(page)
           /\ Len(last.ret.list) <= a.limit
           /\ \A n \in 1..Len(page) :
                 /\ last.ret.list[n].id = page[n]
                 /\ "content" \notin DOMAIN last.ret.list[n]

\* C20: get_project_count() returns the number of rows in the table, and
\* get_project_count(owner) the number of rows whose owner is that string,
\* be it empty, one character or longer; neither raises.
C20_CountMatchesRows ==
    (last.op = "get_project_count") =>
        LET owner == last.args.user_id
        IN /\ last.exc = NoExc
           /\ owner = None => last.ret = PyInt(Cardinality(DOMAIN db))
           /\ owner # None =>
                 last.ret = PyInt(Cardinality({k \in DOMAIN db :
                                                  db[k].user_id = owner.str}))

\* the operations that only read the table
ReadOps ==
    {"get_project", "get_user_projects", "search_projects", "get_project_count",
     "export_project"}

\* C25: a step of get_project, get_user_projects, search_projects,
\* get_project_count or export_project, with any arguments and whether it
\* returns or raises, leaves the set of rows, every column value and the id
\* sequence as they were; in particular no row gains the rendered HTML.
C25_ReadsLeaveStoreUnchanged ==
    [][last'.op \in ReadOps =>
          /\ db' = db
          /\ seq' = seq
          /\ \A id \in DOMAIN db' : DOMAIN db'[id] = TableColumns]_vars

\* a read has returned a row of a table that holds rows
C25_Witness ==
    /\ last.op = "export_project"
    /\ last.exc = NoExc
    /\ last.args.format = "json"
    /\ last.ret.content # None
    /\ IdValue(last.args.project_id) \in DOMAIN db
    /\ last.ret.content.json.id = IdValue(last.args.project_id)
    /\ db[IdValue(last.args.project_id)].content = <<>>

====
